---------------------------- MODULE Spec2Model ----------------------------
(***************************************************************************)
(* A model of the fornax-images build tooling:                             *)
(*   src/src/build.py        class Builder (dry-run aware command runner,  *)
(*                           build, push, remove_lockfiles,                *)
(*                           update_lockfiles)                             *)
(*   src/src/buildimages.py  class TaskRunner / Builder, and main          *)
(*   src/build.py            build_images                                  *)
(*                                                                         *)
(* Python str values are TLA+ strings; Len, SubSeq and \o act on them      *)
(* character by character.  A Python value whose type matters (None, an    *)
(* int where a str is expected) is a record [type, val].                   *)
(***************************************************************************)
EXTENDS Integers, Sequences, FiniteSets, TLC

VARIABLES
    dryrun,     \* Builder.dryrun of src/src/build.py
    fs,         \* the file system: path |-> content of the files that exist
    issued,     \* the calls of run(): <<[command, timeout, capture]>>
    executed,   \* the commands handed to subprocess.run
    last,       \* the last call of a method: its arguments and its outcome
    pc,         \* main's position
    params,     \* main's arguments
    tobuild,    \* main's tobuild list
    idx,        \* main's position in tobuild
    cwd,        \* the process's working directory
    steps       \* the Builder steps main has made: <<[image, step]>>

vars == <<dryrun, fs, issued, executed, last, pc, params, tobuild, idx, cwd, steps>>

(***************************************************************************)
(* Bounds of the model.                                                    *)
(***************************************************************************)
\* the longest build_args list a caller passes
MaxArgs == 2
\* the longest images list a caller passes to builds_necessary / main
MaxImages == 2

(***************************************************************************)
(* Python values.                                                          *)
(***************************************************************************)
PyNone == [type |-> "NoneType", val |-> ""]
PyStr(s) == [type |-> "str", val |-> s]
\* an int argument, kept by its decimal text
PyInt(s) == [type |-> "int", val |-> s]

\* isinstance(v, str)
IsStr(v) == v.type = "str"

\* bool(v) of an optional str: None and '' are false
Truthy(v) == v.type # "NoneType" /\ v.val # ""

(***************************************************************************)
(* str methods.                                                            *)
(***************************************************************************)
\* s.startswith(p)
StartsWith(s, p) == Len(s) >= Len(p) /\ SubSeq(s, 1, Len(p)) = p

\* sub in s
Contains(s, sub) ==
    \E i \in 1..(Len(s) - Len(sub) + 1) : SubSeq(s, i, i + Len(sub) - 1) = sub

\* s.count(c) for a one-character c
Count(s, c) == Cardinality({i \in 1..Len(s) : SubSeq(s, i, i) = c})

\* the characters str.strip() removes
Whitespace == {" ", "\t", "\n", "\r"}

\* s.strip()
Strip(s) ==
    LET keep == {i \in 1..Len(s) : SubSeq(s, i, i) \notin Whitespace}
    IN  IF keep = {} THEN ""
        ELSE LET lo == CHOOSE i \in keep : \A j \in keep : i <= j
                 hi == CHOOSE i \in keep : \A j \in keep : j <= i
             IN  SubSeq(s, lo, hi)

\* the index of the first / last occurrence of the one-character c in s, 0 if none
FirstIndex(s, c) ==
    LET at == {i \in 1..Len(s) : SubSeq(s, i, i) = c}
    IN  IF at = {} THEN 0 ELSE CHOOSE i \in at : \A j \in at : i <= j

LastIndex(s, c) ==
    LET at == {i \in 1..Len(s) : SubSeq(s, i, i) = c}
    IN  IF at = {} THEN 0 ELSE CHOOSE i \in at : \A j \in at : j <= i

\* s.split(c, 1): one or two parts
Split1(s, c) ==
    LET i == FirstIndex(s, c)
    IN  IF i = 0 THEN <<s>> ELSE <<SubSeq(s, 1, i - 1), SubSeq(s, i + 1, Len(s))>>

\* s.rsplit(c, 1): one or two parts
RSplit1(s, c) ==
    LET i == LastIndex(s, c)
    IN  IF i = 0 THEN <<s>> ELSE <<SubSeq(s, 1, i - 1), SubSeq(s, i + 1, Len(s))>>

\* s.split(c): every part
RECURSIVE Split(_, _)
Split(s, c) ==
    LET i == FirstIndex(s, c)
    IN  IF i = 0 THEN <<s>>
        ELSE <<SubSeq(s, 1, i - 1)>> \o Split(SubSeq(s, i + 1, Len(s)), c)

\* sep.join(parts)
RECURSIVE Join(_, _)
Join(parts, sep) ==
    IF Len(parts) = 0 THEN ""
    ELSE IF Len(parts) = 1 THEN parts[1]
    ELSE parts[1] \o sep \o Join(Tail(parts), sep)


(***************************************************************************)
(* The outcome of a command run by the shell.  It is the environment's     *)
(* choice: the command exits with status 0 (and prints stdout), exits with *)
(* another status, or exceeds its timeout.                                 *)
(***************************************************************************)
Stdouts ==
    { "",
      "name: base\nchannels:\n  - conda-forge\n",
      "WARNING: no tty\nname: notebook\ndependencies:\n",
      "junk\n# name: old\nname: new\nprefix: /opt\n",
      "no such environment\n" }

EnvOutcomes ==
    [kind : {"ok"}, stdout : Stdouts]
        \cup {[kind |-> "nonzero", stdout |-> ""], [kind |-> "timeout", stdout |-> ""]}

\* the outcomes kept where a run makes several commands
MainOutcomes ==
    {o \in EnvOutcomes :
        o.stdout \in {"", "WARNING: no tty\nname: notebook\ndependencies:\n"}}

\* the outcomes of a command whose output nobody reads
PlainOutcomes == {o \in EnvOutcomes : o.stdout = ""}

\* subprocess.run(command, shell=True, check=True, text=True, timeout=..., **runargs)
SubprocessRun(command, timeout, capture, env) ==
    IF env.kind = "nonzero" THEN
        [raised |-> "CalledProcessError", result |-> [type |-> "NoneType", stdout |-> PyNone]]
    ELSE IF env.kind = "timeout" THEN
        [raised |-> "TimeoutExpired", result |-> [type |-> "NoneType", stdout |-> PyNone]]
    ELSE
        [raised |-> "",
         result |-> [type |-> "CompletedProcess",
                     stdout |-> IF capture THEN PyStr(env.stdout) ELSE PyNone]]

\* what one call of run() leaves behind
Call(command, timeout, capture) ==
    [command |-> command, timeout |-> timeout, capture |-> capture]

(***************************************************************************)
(* src/src/build.py: Builder.run                                           *)
(***************************************************************************)
\* a mutant of BuilderRun: the dryrun test is inverted
BuilderRunInverted(dry, command, timeout, capture, env) ==
    LET sub == SubprocessRun(command, timeout, capture, env)
    IN  IF ~dry THEN
            [raised |-> "", result |-> [type |-> "NoneType", stdout |-> PyNone],
             issued |-> <<Call(command, timeout, capture)>>, executed |-> <<>>]
        ELSE
            [raised |-> sub.raised, result |-> sub.result,
             issued |-> <<Call(command, timeout, capture)>>, executed |-> <<command>>]

BuilderRun(dry, command, timeout, capture, env) ==
    LET sub == SubprocessRun(command, timeout, capture, env)
    IN  IF dry THEN
            [raised |-> "", result |-> [type |-> "NoneType", stdout |-> PyNone],
             issued |-> <<Call(command, timeout, capture)>>, executed |-> <<>>]
        ELSE
            [raised |-> sub.raised, result |-> sub.result,
             issued |-> <<Call(command, timeout, capture)>>, executed |-> <<command>>]

\* a handler that raised before it called run()
Raised(exc) ==
    [raised |-> exc, result |-> [type |-> "NoneType", stdout |-> PyNone],
     issued |-> <<>>, executed |-> <<>>]

(***************************************************************************)
(* src/src/build.py: Builder.build                                         *)
(***************************************************************************)
\* a list argument
PyList(items) == [type |-> "list", val |-> "", items |-> items]

\* build_args or []
ItemsOf(build_args) == IF build_args.type = "list" THEN build_args.items ELSE <<>>

\* timeout of 'docker build'
BuildTimeout == 10000
\* timeout of 'docker push'
PushTimeout == 1000
\* timeout of 'docker run ... mamba env export'
ExportTimeout == 500

\* a mutant of AddDefault: the default is appended whatever the caller supplied
AddDefaultAlways(args, key, val) == Append(args, key \o "=" \o val)

\* one round of the loop over mapping.items(): the default is appended unless
\* an argument starts with 'KEY='
AddDefault(args, key, val) ==
    IF \E i \in 1..Len(args) : StartsWith(args[i], key \o "=")
    THEN args
    ELSE Append(args, key \o "=" \o val)

\* the loop over mapping.items(), in the dict's insertion order
RECURSIVE AddDefaults(_, _)
AddDefaults(args, mapping) ==
    IF Len(mapping) = 0 THEN args
    ELSE AddDefaults(AddDefault(args, mapping[1][1], mapping[1][2]), Tail(mapping))

\* the loop over build_args: the first entry without exactly one '=' raises
BadArgs(args) == \E i \in 1..Len(args) : Count(args[i], "=") # 1

\* name, val = arg.split("=", 1); f"--build-arg {name}={val}"
BuildArgFlag(arg) ==
    LET nv == Split1(arg, "=") IN "--build-arg " \o nv[1] \o "=" \o nv[2]

\* a mutant of BuilderEffectiveTag: the tag is never cut
BuilderEffectiveTagUncut(tag) == tag

\* if ':' in tag: tag = tag.rsplit(':', 1)[1]
BuilderEffectiveTag(tag) == IF Contains(tag, ":") THEN RSplit1(tag, ":")[2] ELSE tag

BuilderBuild(dry, repo, image, tag, build_args, extra_args, env) ==
    \* build_args or [] is still the caller's str when that is not empty
    IF build_args.type = "str" /\ build_args.val # "" THEN Raised("ValueError")
    ELSE
        LET tag1 == BuilderEffectiveTag(tag)
            stripped == [i \in 1..Len(ItemsOf(build_args)) |-> Strip(ItemsOf(build_args)[i])]
            args == AddDefaults(stripped,
                                << <<"REPOSITORY", repo>>, <<"IMAGE_TAG", tag1>> >>)
        IN  IF BadArgs(args) THEN Raised("ValueError")
            ELSE
                LET flags == [i \in 1..Len(args) |-> BuildArgFlag(args[i])]
                    cmd_args == IF Truthy(extra_args)
                                THEN Append(flags, extra_args.val) ELSE flags
                    build_cmd == "docker build " \o Join(cmd_args, " ")
                                     \o " --tag " \o tag1 \o " " \o image
                IN  BuilderRun(dry, build_cmd, BuildTimeout, FALSE, env)

(***************************************************************************)
(* src/src/build.py: Builder.push                                          *)
(***************************************************************************)
BuilderPush(dry, tag, env) ==
    IF ~IsStr(tag) \/ ~Contains(tag.val, ":") THEN Raised("ValueError")
    ELSE BuilderRun(dry, "docker push " \o tag.val, PushTimeout, FALSE, env)

(***************************************************************************)
(* src/src/buildimages.py: TaskRunner.run and Builder.build, push,         *)
(* builds_necessary                                                        *)
(***************************************************************************)
\* order
BuildOrder == <<"base_image", "tractor">>

\* a mutant of TaskRunnerRun: subprocess.run without check=True hands a
\* non-zero exit status back in the result and raises nothing for it
TaskRunnerRunUnchecked(command, timeout, capture, env) ==
    [raised |-> IF env.kind = "timeout" THEN "TimeoutExpired" ELSE "",
     result |-> [type |-> "CompletedProcess",
                 stdout |-> IF capture THEN PyStr(env.stdout) ELSE PyNone],
     issued |-> <<Call(command, timeout, capture)>>, executed |-> <<command>>]

\* TaskRunner.run: there is no dry mode
TaskRunnerRun(command, timeout, capture, env) ==
    LET sub == SubprocessRun(command, timeout, capture, env)
    IN  [raised |-> sub.raised, result |-> sub.result,
         issued |-> <<Call(command, timeout, capture)>>, executed |-> <<command>>]

\* Builder.build of buildimages.py
ImagesBuild(repository, image_path, tag, build_args, build_pars, env) ==
    \* default_tag = tag.rsplit(":", 1)[1]
    IF Len(RSplit1(tag, ":")) < 2 THEN Raised("IndexError")
    ELSE
        LET default_tag == RSplit1(tag, ":")[2]
            stripped == [i \in 1..Len(ItemsOf(build_args)) |-> Strip(ItemsOf(build_args)[i])]
            args == AddDefaults(stripped,
                                << <<"REPOSITORY", repository>>,
                                   <<"BASE_IMAGE_TAG", default_tag>>,
                                   <<"IMAGE_TAG", default_tag>> >>)
        IN  IF BadArgs(args) THEN Raised("ValueError")
            ELSE
                LET flags == [i \in 1..Len(args) |-> BuildArgFlag(args[i])]
                    extra_args == IF Truthy(build_pars)
                                  THEN Append(flags, build_pars.val) ELSE flags
                    buildcommand == "docker build " \o Join(extra_args, " ")
                                        \o " --tag " \o tag \o " " \o image_path
                IN  TaskRunnerRun(buildcommand, BuildTimeout, FALSE, env)

\* Builder.push of buildimages.py: f"docker push {tag}" formats whatever it is given
ImagesPush(tag, env) ==
    TaskRunnerRun("docker push " \o tag.val, PushTimeout, FALSE, env)

\* the elements of a sequence
Range(seq) == {seq[i] : i \in 1..Len(seq)}

\* the loop 'for name in order: if name in images: tobuild.append(...)'
RECURSIVE OrderedBuilds(_, _, _, _)
OrderedBuilds(names, repository, tag, images) ==
    IF Len(names) = 0 THEN <<>>
    ELSE (IF names[1] \in Range(images)
          THEN << <<names[1], "ghcr.io/" \o repository \o "/" \o names[1] \o ":" \o tag>> >>
          ELSE <<>>)
         \o OrderedBuilds(Tail(names), repository, tag, images)

\* a mutant of BuildsNecessary: the builds are listed in the order requested
BuildsNecessaryAsRequested(repository, tag, images) ==
    IF \E i \in 1..Len(images) : images[i] \notin Range(BuildOrder)
    THEN [exit |-> 2, tobuild |-> <<>>]
    ELSE [exit |-> 0,
          tobuild |-> [i \in 1..Len(images) |->
                         <<images[i],
                           "ghcr.io/" \o repository \o "/" \o images[i] \o ":" \o tag>>]]

\* Builder.builds_necessary: SystemExit(2) on an unknown name, else the list
BuildsNecessary(repository, tag, images) ==
    IF \E i \in 1..Len(images) : images[i] \notin Range(BuildOrder)
    THEN [exit |-> 2, tobuild |-> <<>>]
    ELSE [exit |-> 0, tobuild |-> OrderedBuilds(BuildOrder, repository, tag, images)]

(***************************************************************************)
(* The arguments the callers pass.                                         *)
(***************************************************************************)
Repos == {"some-repo", "nasa-fornax/fornax-images"}

Tags == {"some-tag", "some-repo:some-tag", "localhost:5000/some-image:v1"}

ArgPool == {"ENV=val", "ENV2=val", " REPOSITORY=mine", "IMAGE_TAG=v9 ", "badarg", "a=b=c"}

\* every sequence over S of length at most n
SeqsUpTo(S, n) == UNION {[1..k -> S] : k \in 0..n}

BuildArgsValues ==
    {PyNone, PyStr("ENV=val")} \cup {PyList(l) : l \in SeqsUpTo(ArgPool, MaxArgs)}

ExtraArgs == {PyNone, PyStr(""), PyStr("--no-cache --network=host")}

PushTags == {PyStr(t) : t \in Tags} \cup {PyInt("123")}

Commands == {"ls", "pwd"}

ImageNames == {"base_image", "tractor", "heasoft"}

NoFiles == [p \in {} |-> ""]

NoParams == [none |-> TRUE]

Idle == [op |-> "idle"]

\* the record of a finished call
Called(op, module, args, env, r) ==
    [op |-> op, module |-> module, args |-> args, env |-> env,
     raised |-> r.raised, result |-> r.result]

(***************************************************************************)
(* Direct calls of the methods that build command lines: one call at a     *)
(* time on a Builder of either module; Return hands control back to the    *)
(* caller.                                                                 *)
(***************************************************************************)
Init ==
    /\ dryrun \in BOOLEAN
    /\ fs = NoFiles
    /\ issued = <<>>
    /\ executed = <<>>
    /\ last = Idle
    /\ pc = "none"
    /\ params = NoParams
    /\ tobuild = <<>>
    /\ idx = 0
    /\ cwd = "."
    /\ steps = <<>>

mainVars == <<pc, params, tobuild, idx, cwd, steps>>

\* Builder.run of build.py
Run ==
    /\ last = Idle
    /\ \E command \in Commands, timeout \in {100}, capture \in BOOLEAN, env \in EnvOutcomes :
         LET r == BuilderRun(dryrun, command, timeout, capture, env)
         IN  /\ last' = Called("run", "build",
                               [command |-> command, timeout |-> timeout, capture |-> capture],
                               env, r)
             /\ issued' = r.issued
             /\ executed' = r.executed
    /\ UNCHANGED <<dryrun, fs, mainVars>>

\* Builder.build of build.py
Build ==
    /\ last = Idle
    /\ \E repo \in Repos, tag \in Tags, build_args \in BuildArgsValues,
          extra_args \in ExtraArgs, env \in PlainOutcomes :
         LET r == BuilderBuild(dryrun, repo, "some-image", tag, build_args, extra_args, env)
         IN  /\ last' = Called("build", "build",
                               [repo |-> repo, image |-> "some-image", tag |-> tag,
                                build_args |-> build_args, extra_args |-> extra_args],
                               env, r)
             /\ issued' = r.issued
             /\ executed' = r.executed
    /\ UNCHANGED <<dryrun, fs, mainVars>>

\* Builder.push of build.py
Push ==
    /\ last = Idle
    /\ \E tag \in PushTags, env \in PlainOutcomes :
         LET r == BuilderPush(dryrun, tag, env)
         IN  /\ last' = Called("push", "build", [tag |-> tag], env, r)
             /\ issued' = r.issued
             /\ executed' = r.executed
    /\ UNCHANGED <<dryrun, fs, mainVars>>

\* Builder.build of buildimages.py
BuildImg ==
    /\ last = Idle
    /\ \E repo \in Repos, tag \in Tags, build_args \in BuildArgsValues \ {PyStr("ENV=val")},
          build_pars \in ExtraArgs, env \in PlainOutcomes :
         LET r == ImagesBuild(repo, "tractor", tag, build_args, build_pars, env)
         IN  /\ last' = Called("build", "buildimages",
                               [repo |-> repo, image |-> "tractor", tag |-> tag,
                                build_args |-> build_args, extra_args |-> build_pars],
                               env, r)
             /\ issued' = r.issued
             /\ executed' = r.executed
    /\ UNCHANGED <<dryrun, fs, mainVars>>

\* Builder.push of buildimages.py
PushImg ==
    /\ last = Idle
    /\ \E tag \in PushTags, env \in PlainOutcomes :
         LET r == ImagesPush(tag, env)
         IN  /\ last' = Called("push", "buildimages", [tag |-> tag], env, r)
             /\ issued' = r.issued
             /\ executed' = r.executed
    /\ UNCHANGED <<dryrun, fs, mainVars>>

\* Builder.builds_necessary of buildimages.py
BuildsNecessaryCall ==
    /\ last = Idle
    /\ \E repo \in Repos, tag \in {"some-tag"}, images \in SeqsUpTo(ImageNames, MaxImages) :
         LET r == BuildsNecessary(repo, tag, images)
         IN  last' = [op |-> "builds_necessary", module |-> "buildimages",
                      args |-> [repo |-> repo, tag |-> tag, images |-> images],
                      exit |-> r.exit, result |-> r.tobuild]
    /\ UNCHANGED <<dryrun, fs, issued, executed, mainVars>>

\* the caller takes the outcome
Return ==
    /\ last # Idle
    /\ last' = Idle
    /\ issued' = <<>>
    /\ executed' = <<>>
    /\ UNCHANGED <<dryrun, fs, mainVars>>

Next ==
    \/ Run
    \/ Build
    \/ Push
    \/ BuildImg
    \/ PushImg
    \/ BuildsNecessaryCall
    \/ Return

Spec == Init /\ [][Next]_vars

(***************************************************************************)
(* What the claims read off a command line and off the caller's arguments. *)
(***************************************************************************)
\* the words of a command line
Words(cmd) == Split(cmd, " ")

\* the word that follows each occurrence of the word flag, in order
RECURSIVE FlagValues(_, _)
FlagValues(words, flag) ==
    IF Len(words) < 2 THEN <<>>
    ELSE IF words[1] = flag
         THEN <<words[2]>> \o FlagValues(SubSeq(words, 3, Len(words)), flag)
         ELSE FlagValues(Tail(words), flag)

\* the part of tag after its last colon; tag itself when it holds no colon
SuffixAfterLastColon(tag) ==
    CHOOSE t \in {SubSeq(tag, i + 1, Len(tag)) : i \in 0..Len(tag)} :
        /\ ~Contains(t, ":")
        /\ \/ t = tag
           \/ SubSeq(tag, Len(tag) - Len(t), Len(tag) - Len(t)) = ":"

\* the caller's entries, without the surrounding blanks
CallerArgs(build_args) ==
    [i \in 1..Len(ItemsOf(build_args)) |-> Strip(ItemsOf(build_args)[i])]

\* every entry is name=value
WellFormed(build_args) ==
    /\ build_args.type \in {"NoneType", "list"}
    /\ \A i \in 1..Len(ItemsOf(build_args)) : Count(ItemsOf(build_args)[i], "=") = 1

\* some entry is not name=value
HasMalformed(build_args) ==
    /\ build_args.type = "list"
    /\ \E i \in 1..Len(build_args.items) : Count(build_args.items[i], "=") # 1

\* the caller gave a value for key
Supplied(build_args, key) ==
    \E i \in 1..Len(CallerArgs(build_args)) :
        SubSeq(CallerArgs(build_args)[i], 1, FirstIndex(CallerArgs(build_args)[i], "=") - 1) = key

\* the build call of either module has passed one command to run()
BuildIssued(module) ==
    /\ last # Idle
    /\ last.op = "build"
    /\ last.module = module
    /\ Len(issued) = 1

\* C1: build of build.py, given well-formed build_args, issues one command
\* whose --build-arg flags are the caller's entries in the caller's order,
\* followed by a default REPOSITORY=<repository> and a default
\* IMAGE_TAG=<effective tag> for exactly the keys the caller did not supply.
C1_DefaultsOnlyForMissingKeys ==
    (last # Idle /\ last.op = "build" /\ last.module = "build"
        /\ WellFormed(last.args.build_args))
    => /\ last.raised # "ValueError"
       /\ Len(issued) = 1
       /\ FlagValues(Words(issued[1].command), "--build-arg")
            = CallerArgs(last.args.build_args)
                \o (IF Supplied(last.args.build_args, "REPOSITORY") THEN <<>>
                    ELSE <<"REPOSITORY=" \o last.args.repo>>)
                \o (IF Supplied(last.args.build_args, "IMAGE_TAG") THEN <<>>
                    ELSE <<"IMAGE_TAG=" \o SuffixAfterLastColon(last.args.tag)>>)

\* a build whose caller supplied REPOSITORY, another entry, and no IMAGE_TAG
C1_Witness ==
    /\ BuildIssued("build")
    /\ WellFormed(last.args.build_args)
    /\ Len(ItemsOf(last.args.build_args)) = 2
    /\ Supplied(last.args.build_args, "REPOSITORY")
    /\ Supplied(last.args.build_args, "ENV")
    /\ ~Supplied(last.args.build_args, "IMAGE_TAG")

\* the effective tag is the suffix after the last colon, in the default
\* IMAGE_TAG and after --tag
UsesSuffixEverywhere ==
    /\ FlagValues(Words(issued[1].command), "--tag")
         = <<SuffixAfterLastColon(last.args.tag)>>
    /\ ~Supplied(last.args.build_args, "IMAGE_TAG")
         => \E i \in 1..Len(FlagValues(Words(issued[1].command), "--build-arg")) :
               FlagValues(Words(issued[1].command), "--build-arg")[i]
                 = "IMAGE_TAG=" \o SuffixAfterLastColon(last.args.tag)

\* C2 as stated: in every build command of either module, the default
\* IMAGE_TAG and the --tag flag both carry the suffix after the tag's last
\* colon (the whole tag when it has no colon).
C2_SuffixInBothModules ==
    (BuildIssued("build") \/ BuildIssued("buildimages")) => UsesSuffixEverywhere

\* C2 amended: build of build.py uses the suffix after the last colon (the
\* whole tag when it has no colon) in the default IMAGE_TAG and after --tag;
\* build of buildimages.py, given repo:tag, uses the suffix in the default
\* IMAGE_TAG only and passes the whole tag to --tag.
C2_SuffixPerModule ==
    /\ BuildIssued("build") => UsesSuffixEverywhere
    /\ BuildIssued("buildimages")
         => /\ Contains(last.args.tag, ":")
            /\ FlagValues(Words(issued[1].command), "--tag") = <<last.args.tag>>
            /\ ~Supplied(last.args.build_args, "IMAGE_TAG")
                 => \E i \in 1..Len(FlagValues(Words(issued[1].command), "--build-arg")) :
                       FlagValues(Words(issued[1].command), "--build-arg")[i]
                         = "IMAGE_TAG=" \o SuffixAfterLastColon(last.args.tag)

\* a build of build.py whose tag holds two colons and whose caller left
\* IMAGE_TAG to the default
C2_Witness ==
    /\ BuildIssued("build")
    /\ Count(last.args.tag, ":") = 2
    /\ ~Supplied(last.args.build_args, "IMAGE_TAG")

\* C3 as stated: a build call of either module whose build_args hold an
\* entry without exactly one '=' raises ValueError and passes no command to
\* run(), whatever the other arguments are.
C3_MalformedRaisesValueError ==
    (last # Idle /\ last.op = "build" /\ HasMalformed(last.args.build_args))
    => (last.raised = "ValueError" /\ issued = <<>>)

\* C4 as stated: push of either module raises ValueError and passes no
\* command to run() unless the tag is a str holding a colon, and otherwise
\* passes exactly 'docker push <tag>' with a timeout of 1000 s, which does
\* not fail in dry mode.
C4_PushValidatesTag ==
    (last # Idle /\ last.op = "push")
    => IF IsStr(last.args.tag) /\ Contains(last.args.tag.val, ":")
       THEN /\ issued = <<Call("docker push " \o last.args.tag.val, 1000, FALSE)>>
            /\ (last.module = "build" /\ dryrun) => last.raised = ""
       ELSE last.raised = "ValueError" /\ issued = <<>>

\* the place of name in BuildOrder, 0 if it has none
OrderIndex(name) ==
    IF name \in Range(BuildOrder)
    THEN CHOOSE i \in 1..Len(BuildOrder) : BuildOrder[i] = name
    ELSE 0

\* C6: builds_necessary exits with code 2 and returns nothing when a
\* requested name is not in BuildOrder; otherwise it returns exactly the
\* requested names, each once, in BuildOrder order, each paired with
\* ghcr.io/<repository>/<name>:<tag>.
C6_BuildsInBuildOrder ==
    (last # Idle /\ last.op = "builds_necessary")
    => IF \E i \in 1..Len(last.args.images) : OrderIndex(last.args.images[i]) = 0
       THEN last.exit = 2 /\ last.result = <<>>
       ELSE /\ last.exit = 0
            /\ {last.result[i][1] : i \in 1..Len(last.result)} = Range(last.args.images)
            /\ \A i, j \in 1..Len(last.result) :
                 i < j => OrderIndex(last.result[i][1]) < OrderIndex(last.result[j][1])
            /\ \A i \in 1..Len(last.result) :
                 last.result[i][2]
                   = "ghcr.io/" \o last.args.repo \o "/" \o last.result[i][1]
                       \o ":" \o last.args.tag

\* both images requested, dependent first, and returned base first
C6_Witness ==
    /\ last # Idle
    /\ last.op = "builds_necessary"
    /\ last.args.images = <<"tractor", "base_image">>
    /\ Len(last.result) = 2
    /\ last.result[1][1] = "base_image"

\* C9: in dry mode run() returns None and hands nothing to subprocess.run,
\* for run() itself and for every method of build.py that calls it; in live
\* mode a command that exits with status 0 within its timeout yields a
\* result that is not None and that carries the captured stdout when capture
\* was requested.
C9_DryRunReturnsNone ==
    /\ (last # Idle /\ last.module = "build" /\ dryrun) => executed = <<>>
    /\ (last # Idle /\ last.op = "run")
         => /\ issued = <<Call(last.args.command, last.args.timeout, last.args.capture)>>
            /\ dryrun => (last.result.type = "NoneType" /\ last.raised = "")
            /\ (~dryrun /\ last.env.kind = "ok")
                 => /\ last.raised = ""
                    /\ last.result.type = "CompletedProcess"
                    /\ executed = <<last.args.command>>
                    /\ last.args.capture => last.result.stdout = PyStr(last.env.stdout)

\* run() called in dry mode with a command that would have succeeded
C9_Witness ==
    /\ last # Idle
    /\ last.op = "run"
    /\ dryrun
    /\ last.args.capture
    /\ last.env.kind = "ok"
    /\ last.result.type = "NoneType"

(***************************************************************************)
(* Lock files: glob, remove_lockfiles and update_lockfiles of build.py and *)
(* of buildimages.py.                                                      *)
(***************************************************************************)
\* fnmatch of one path against a pattern whose only wildcard is '*'; glob
\* matches a '*' inside one directory, so it spans no '/'
RECURSIVE GlobMatch(_, _)
GlobMatch(pattern, path) ==
    IF pattern = "" THEN path = ""
    ELSE IF Head(pattern) = "*"
         THEN \/ GlobMatch(Tail(pattern), path)
              \/ (path # "" /\ Head(path) # "/" /\ GlobMatch(pattern, Tail(path)))
         ELSE path # "" /\ Head(path) = Head(pattern)
                /\ GlobMatch(Tail(pattern), Tail(path))

\* glob.glob(pattern) on the files that exist
Glob(files, pattern) == {p \in DOMAIN files : GlobMatch(pattern, p)}

\* files without the paths in gone
Unlink(files, gone) == [p \in (DOMAIN files) \ gone |-> files[p]]

\* open(path, "w").write(content)
WriteFile(files, path, content) ==
    [p \in (DOMAIN files) \cup {path} |-> IF p = path THEN content ELSE files[p]]

\* a mutant of RemoveLockfiles: every conda-*.yml file is taken for a lock file
RemoveLockfilesAllYml(files, image) ==
    Unlink(files, Glob(files, image \o "/conda-*.yml"))

\* remove_lockfiles, the same in build.py and buildimages.py: every file
\* glob finds is unlinked (build.py does not consult dryrun here)
RemoveLockfiles(files, image) ==
    Unlink(files, Glob(files, image \o "/conda-*lock.yml"))

\* [env for env in glob.glob(f'{image}/conda-*.yml') if 'lock' not in env]
EnvFiles(files, image) ==
    {p \in Glob(files, image \o "/conda-*.yml") : ~Contains(p, "lock")}

\* re.match(rf"{image}/conda-(.*).yml", env): group 1 of the greedy match,
\* 'base' when nothing matches
EnvName(image, env) ==
    LET prefix == image \o "/conda-"
        rest == IF StartsWith(env, prefix)
                THEN SubSeq(env, Len(prefix) + 1, Len(env)) ELSE ""
        \* k characters for (.*), then any one character, then 'yml'
        ks == {k \in 0..(Len(rest) - 4) :
                  /\ SubSeq(rest, k + 2, k + 4) = "yml"
                  /\ \A i \in 1..(k + 1) : SubSeq(rest, i, i) # "\n"}
    IN  IF ~StartsWith(env, prefix) \/ ks = {} THEN "base"
        ELSE SubSeq(rest, 1, CHOOSE k \in ks : \A j \in ks : j <= k)

\* the loop over result.stdout.split("\n"): include turns true at the first
\* line that holds 'name:' and that line and all after it are kept
RECURSIVE KeepFromName(_, _)
KeepFromName(lines, include) ==
    IF Len(lines) = 0 THEN <<>>
    ELSE LET inc == include \/ Contains(lines[1], "name:")
         IN  (IF inc THEN <<lines[1]>> ELSE <<>>) \o KeepFromName(Tail(lines), inc)

\* the text written to the lock file: "\n".join(lines)
LockText(stdout) == Join(KeepFromName(Split(stdout, "\n"), FALSE), "\n")

\* f"{image}/conda-{env_name}-lock.yml"
LockPath(image, env_name) == image \o "/conda-" \o env_name \o "-lock.yml"

\* what a handler that works on files leaves behind
Effect(raised, files, calls, execs) ==
    [raised |-> raised, fs |-> files, issued |-> calls, executed |-> execs]

\* the loop 'for env in envfiles' of update_lockfiles in build.py; envs is
\* envfiles in glob's order, outs the outcome of each export command
RECURSIVE BuilderUpdateLoop(_, _, _, _, _, _, _)
BuilderUpdateLoop(dry, image, tag, extra_args, envs, outs, acc) ==
    IF Len(envs) = 0 THEN acc
    ELSE
        LET env_name == EnvName(image, envs[1])
            cmd == "docker run --entrypoint=\"\" --rm " \o extra_args \o " " \o tag
                       \o "mamba env export -n " \o env_name
            r == BuilderRun(dry, cmd, ExportTimeout, TRUE, outs[1])
            calls == acc.issued \o r.issued
            execs == acc.executed \o r.executed
        IN  IF r.raised # "" THEN Effect(r.raised, acc.fs, calls, execs)
            \* result.stdout of None
            ELSE IF r.result.type = "NoneType"
                 THEN Effect("AttributeError", acc.fs, calls, execs)
            ELSE BuilderUpdateLoop(dry, image, tag, extra_args, Tail(envs), Tail(outs),
                     Effect("", WriteFile(acc.fs, LockPath(image, env_name),
                                          LockText(r.result.stdout.val)),
                            calls, execs))

\* update_lockfiles of build.py
BuilderUpdateLockfiles(dry, files, image, tag, extra_args, envs, outs) ==
    IF ~IsStr(tag) \/ ~Contains(tag.val, ":") THEN Effect("ValueError", files, <<>>, <<>>)
    ELSE IF Truthy(extra_args) /\ ~IsStr(extra_args)
         THEN Effect("ValueError", files, <<>>, <<>>)
    ELSE BuilderUpdateLoop(dry, image, RSplit1(tag.val, ":")[2],
                           IF Truthy(extra_args) THEN extra_args.val ELSE "",
                           envs, outs, Effect("", files, <<>>, <<>>))

\* the loop 'for env in envfiles' of update_lockfiles in buildimages.py
RECURSIVE ImagesUpdateLoop(_, _, _, _, _, _)
ImagesUpdateLoop(image_path, repository, tag, envs, outs, acc) ==
    IF Len(envs) = 0 THEN acc
    ELSE
        LET env_name == EnvName(image_path, envs[1])
            cmd == "docker run --entrypoint=\"\" --rm "
                       \o "ghcr.io/" \o repository \o "/" \o image_path \o ":" \o tag \o " "
                       \o "mamba env export -n " \o env_name
            r == TaskRunnerRun(cmd, ExportTimeout, TRUE, outs[1])
            calls == acc.issued \o r.issued
            execs == acc.executed \o r.executed
        IN  IF r.raised # "" THEN Effect(r.raised, acc.fs, calls, execs)
            ELSE ImagesUpdateLoop(image_path, repository, tag, Tail(envs), Tail(outs),
                     Effect("", WriteFile(acc.fs, LockPath(image_path, env_name),
                                          LockText(r.result.stdout.val)),
                            calls, execs))

\* update_lockfiles of buildimages.py
ImagesUpdateLockfiles(files, image_path, repository, tag, envs, outs) ==
    \* tag = tag.rsplit(":", 1)[1]
    IF Len(RSplit1(tag, ":")) < 2 THEN Effect("IndexError", files, <<>>, <<>>)
    ELSE ImagesUpdateLoop(image_path, repository, RSplit1(tag, ":")[2], envs, outs,
                          Effect("", files, <<>>, <<>>))

(***************************************************************************)
(* src/build.py: build_images                                              *)
(***************************************************************************)
LowerCase == "abcdefghijklmnopqrstuvwxyz"
UpperCase == "ABCDEFGHIJKLMNOPQRSTUVWXYZ"

\* s.upper()
RECURSIVE Upper(_)
Upper(s) ==
    IF s = "" THEN ""
    ELSE LET i == FirstIndex(LowerCase, Head(s))
         IN  (IF i = 0 THEN Head(s) ELSE SubSeq(UpperCase, i, i)) \o Upper(Tail(s))

\* n repetitions of the two words --build-arg, arg
RECURSIVE Repeated(_, _)
Repeated(n, arg) == IF n = 0 THEN <<>> ELSE <<"--build-arg", arg>> \o Repeated(n - 1, arg)

\* lines 52-59: the check of build_args and the words they add to the
\* command.  The split and the upper-casing stand after the loop, so they
\* act on the last entry alone, which the comprehension then repeats once
\* for every entry; with an empty list the name arg is unbound.
SingleBuildArgs(build_args) ==
    IF build_args.type = "NoneType" THEN [raised |-> "", words |-> <<>>]
    ELSE IF \E i \in 1..Len(build_args.items) : ~Contains(build_args.items[i], "=")
         THEN [raised |-> "ValueError", words |-> <<>>]
    ELSE IF Len(build_args.items) = 0
         THEN [raised |-> "UnboundLocalError", words |-> <<>>]
    ELSE LET args == Split(build_args.items[Len(build_args.items)], "=")
         IN  [raised |-> "",
              words |-> Repeated(Len(build_args.items), Upper(args[1]) \o "=" \o args[2])]

\* lines 84-110: the loop over the environment files; a dry run logs the
\* command and neither runs it nor writes a file
RECURSIVE SingleUpdateLoop(_, _, _, _, _)
SingleUpdateLoop(dry, image, envs, outs, acc) ==
    IF Len(envs) = 0 THEN acc
    ELSE
        LET env_name == EnvName(image, envs[1])
            \* ' '.join(shlex.split(...)): the quotes of --entrypoint="" are gone
            cmd == "docker run --entrypoint= --rm fornax/" \o image \o ":latest "
                       \o "mamba env export -n " \o env_name
            calls == Append(acc.issued, Call(cmd, 0, TRUE))
        IN  IF dry
            THEN SingleUpdateLoop(dry, image, Tail(envs), Tail(outs),
                                  Effect("", acc.fs, calls, acc.executed))
            \* subprocess.check_output has no timeout here
            ELSE IF outs[1].kind # "ok"
                 THEN Effect("CalledProcessError", acc.fs, calls, Append(acc.executed, cmd))
            ELSE SingleUpdateLoop(dry, image, Tail(envs), Tail(outs),
                     Effect("", WriteFile(acc.fs, LockPath(image, env_name),
                                          LockText(outs[1].stdout)),
                            calls, Append(acc.executed, cmd)))

\* build_images; built is the outcome of 'docker build', envs the
\* environment files in glob's order (taken after the old lock files are
\* removed: the pattern skips them anyway), outs the outcomes of the exports
BuildImages(files, image, dry, build_args, update_lock, no_cache, no_build, built, envs, outs) ==
    IF (image \o "/Dockerfile") \notin DOMAIN files
    THEN Effect("ValueError", files, <<>>, <<>>)
    ELSE IF SingleBuildArgs(build_args).raised # ""
         THEN Effect(SingleBuildArgs(build_args).raised, files, <<>>, <<>>)
    ELSE
        LET cmd == Join(<<"docker", "build", "--network=host", "--progress=plain">>
                          \o (IF no_cache THEN <<"--no-cache">> ELSE <<>>)
                          \o <<"-t", "fornax/" \o image \o ":latest">>
                          \o SingleBuildArgs(build_args).words
                          \o <<"./" \o image>>, " ")
            \* os.system(f'rm {image}/conda-*-lock.yml')
            cleaned == IF ~dry /\ update_lock /\ ~no_build
                       THEN Unlink(files, Glob(files, image \o "/conda-*-lock.yml"))
                       ELSE files
            ran == ~dry /\ ~no_build
            afterBuild == Effect(IF ran /\ built.kind # "ok" THEN "SystemExit(1)" ELSE "",
                                 cleaned, <<Call(cmd, 0, FALSE)>>,
                                 IF ran THEN <<cmd>> ELSE <<>>)
        IN  IF afterBuild.raised # "" \/ ~update_lock THEN afterBuild
            ELSE SingleUpdateLoop(dry, image, envs, outs, afterBuild)

(***************************************************************************)
(* Direct calls of the methods that work on lock files, on a directory     *)
(* tree the caller has prepared.                                           *)
(***************************************************************************)
\* files with some content the tool did not write
Files(paths) == [p \in paths |-> "old\n"]

\* the directory trees the calls start from
InitialFiles ==
    { \* the files of test_remove_lockfiles
      Files({"some-image/conda-lock.yml", "some-image/conda-notebook-lock.yml",
             "some-image/conda-a.yml"}),
      \* an image with one environment and its lock file, beside another image
      Files({"some-image/Dockerfile", "some-image/conda-notebook.yml",
             "some-image/conda-notebook-lock.yml", "tractor/conda-b-lock.yml",
             "tractor/Dockerfile"}),
      \* an image without environment files
      Files({"some-image/Dockerfile"}),
      \* environments whose names hold the letters 'lock'
      Files({"some-image/Dockerfile", "some-image/conda-lockstep.yml",
             "some-image/conda-block.yml"}),
      \* two environments, no lock file yet
      Files({"some-image/Dockerfile", "some-image/conda-a.yml",
             "some-image/conda-notebook.yml"}) }

LockDirs == {"some-image", "tractor"}

\* the orders in which glob may list the paths of S
Orders(S) == {o \in [1..Cardinality(S) -> S] : \A i, j \in 1..Cardinality(S) : o[i] = o[j] => i = j}

\* the record of a finished call that worked on files
CalledOnFiles(op, module, args, env, r) ==
    [op |-> op, module |-> module, args |-> args, env |-> env,
     raised |-> r.raised, before |-> fs]

InitLock ==
    /\ dryrun \in BOOLEAN
    /\ fs \in InitialFiles
    /\ issued = <<>>
    /\ executed = <<>>
    /\ last = Idle
    /\ pc = "none"
    /\ params = NoParams
    /\ tobuild = <<>>
    /\ idx = 0
    /\ cwd = "."
    /\ steps = <<>>

\* Builder.remove_lockfiles of build.py
RemoveLockfilesCall ==
    /\ last = Idle
    /\ \E image \in LockDirs :
         /\ fs' = RemoveLockfiles(fs, image)
         /\ last' = CalledOnFiles("remove_lockfiles", "build", [image |-> image],
                                  [envs |-> <<>>, outs |-> <<>>], [raised |-> ""])
    /\ UNCHANGED <<dryrun, issued, executed, mainVars>>

\* Builder.update_lockfiles of build.py
UpdateLockfilesCall ==
    /\ last = Idle
    /\ \E image \in LockDirs, tag \in {PyStr("some-repo:some-tag"), PyStr("some-tag")},
          extra_args \in {PyNone, PyStr("--network=host")} :
         \E envs \in Orders(EnvFiles(fs, image)) :
           \E outs \in [1..Len(envs) -> EnvOutcomes] :
             LET r == BuilderUpdateLockfiles(dryrun, fs, image, tag, extra_args, envs, outs)
             IN  /\ fs' = r.fs
                 /\ issued' = r.issued
                 /\ executed' = r.executed
                 /\ last' = CalledOnFiles("update_lockfiles", "build",
                                          [image |-> image, tag |-> tag,
                                           extra_args |-> extra_args],
                                          [envs |-> envs, outs |-> outs], r)
    /\ UNCHANGED <<dryrun, mainVars>>

\* Builder.remove_lockfiles of buildimages.py
RemoveLockfilesImg ==
    /\ last = Idle
    /\ \E image_path \in LockDirs :
         /\ fs' = RemoveLockfiles(fs, image_path)
         /\ last' = CalledOnFiles("remove_lockfiles", "buildimages", [image |-> image_path],
                                  [envs |-> <<>>, outs |-> <<>>], [raised |-> ""])
    /\ UNCHANGED <<dryrun, issued, executed, mainVars>>

\* Builder.update_lockfiles of buildimages.py
UpdateLockfilesImg ==
    /\ last = Idle
    /\ \E image_path \in LockDirs, tag \in {"ghcr.io/some-repo/some-image:some-tag", "some-tag"} :
         \E envs \in Orders(EnvFiles(fs, image_path)) :
           \E outs \in [1..Len(envs) -> EnvOutcomes] :
             LET r == ImagesUpdateLockfiles(fs, image_path, "some-repo", tag, envs, outs)
             IN  /\ fs' = r.fs
                 /\ issued' = r.issued
                 /\ executed' = r.executed
                 /\ last' = CalledOnFiles("update_lockfiles", "buildimages",
                                          [image |-> image_path, tag |-> PyStr(tag),
                                           extra_args |-> PyNone],
                                          [envs |-> envs, outs |-> outs], r)
    /\ UNCHANGED <<dryrun, mainVars>>

NextLock ==
    \/ RemoveLockfilesCall
    \/ UpdateLockfilesCall
    \/ RemoveLockfilesImg
    \/ UpdateLockfilesImg
    \/ Return

SpecLock == InitLock /\ [][NextLock]_vars

(***************************************************************************)
(* Calls of build_images of src/build.py.                                  *)
(***************************************************************************)
\* the directory trees build_images starts from
SingleInitialFiles ==
    { Files({"some-image/Dockerfile", "some-image/conda-notebook.yml",
             "some-image/conda-notebook-lock.yml", "some-image/conda-lock.yml"}),
      Files({"some-image/Dockerfile", "some-image/conda-a.yml"}),
      Files({"tractor/conda-tractor.yml"}) }

\* the build_args of the callers of build_images
SingleArgPool == {"env=val", "Key2=v2", "badarg"}

\* the outcomes of a command build_images runs: it sets no timeout
SingleOutcomes == {o \in MainOutcomes : o.kind # "timeout"}

InitSingle ==
    /\ dryrun = FALSE
    /\ fs \in SingleInitialFiles
    /\ issued = <<>>
    /\ executed = <<>>
    /\ last = Idle
    /\ pc = "none"
    /\ params = NoParams
    /\ tobuild = <<>>
    /\ idx = 0
    /\ cwd = "."
    /\ steps = <<>>

BuildImagesCall ==
    /\ last = Idle
    /\ \E image \in LockDirs, dry \in BOOLEAN, update_lock \in BOOLEAN, no_cache \in BOOLEAN,
          no_build \in BOOLEAN, built \in {o \in SingleOutcomes : o.stdout = ""},
          build_args \in {PyNone} \cup {PyList(l) : l \in SeqsUpTo(SingleArgPool, MaxArgs)} :
         \E envs \in Orders(EnvFiles(fs, image)) :
           \E outs \in [1..Len(envs) -> SingleOutcomes] :
             LET r == BuildImages(fs, image, dry, build_args, update_lock, no_cache,
                                  no_build, built, envs, outs)
             IN  /\ fs' = r.fs
                 /\ issued' = r.issued
                 /\ executed' = r.executed
                 /\ last' = CalledOnFiles("build_images", "single",
                                          [image |-> image, dryrun |-> dry,
                                           build_args |-> build_args,
                                           update_lock |-> update_lock,
                                           no_cache |-> no_cache, no_build |-> no_build],
                                          [built |-> built, envs |-> envs, outs |-> outs], r)
    /\ UNCHANGED <<dryrun, mainVars>>

NextSingle ==
    \/ BuildImagesCall
    \/ Return

SpecSingle == InitSingle /\ [][NextSingle]_vars

(***************************************************************************)
(* What the claims about lock files read off a path and off an output.     *)
(***************************************************************************)
\* path is dir/conda-<anything>lock.yml, a file of dir itself
IsLockName(dir, path) ==
    \E i \in 0..Len(path) :
        /\ SubSeq(path, 1, i) = dir \o "/conda-"
        /\ \E j \in i..Len(path) :
              /\ SubSeq(path, j + 1, Len(path)) = "lock.yml"
              /\ ~Contains(SubSeq(path, i + 1, j), "/")

\* path is dir/conda-<name>.yml, a file of dir itself
IsEnvDefinition(dir, path) ==
    \E i \in 0..Len(path) :
        /\ SubSeq(path, 1, i) = dir \o "/conda-"
        /\ i + 4 <= Len(path)
        /\ SubSeq(path, Len(path) - 3, Len(path)) = ".yml"
        /\ ~Contains(SubSeq(path, i + 1, Len(path)), "/")

\* dir/conda-<name>-lock.yml for the path dir/conda-<name>.yml
LockOf(path) == SubSeq(path, 1, Len(path) - 4) \o "-lock.yml"

\* the lines of text from the first one that holds 'name:' to the last
FromFirstName(text) ==
    LET lines == Split(text, "\n")
        named == {i \in 1..Len(lines) : Contains(lines[i], "name:")}
    IN  IF named = {} THEN ""
        ELSE Join(SubSeq(lines, CHOOSE i \in named : \A j \in named : i <= j, Len(lines)),
                  "\n")

\* C5: remove_lockfiles(dir) returns normally, also when nothing matches;
\* afterwards no file of dir matches conda-*lock.yml and every other file is
\* still there with its content.
C5_RemoveLeavesOthers ==
    (last # Idle /\ last.op = "remove_lockfiles")
    => /\ last.raised = ""
       /\ \A p \in DOMAIN fs : ~IsLockName(last.args.image, p)
       /\ DOMAIN fs \subseteq DOMAIN last.before
       /\ \A p \in DOMAIN last.before :
             ~IsLockName(last.args.image, p) => (p \in DOMAIN fs /\ fs[p] = last.before[p])

\* remove_lockfiles has removed lock files and left conda-a.yml in place
C5_Witness ==
    /\ last # Idle
    /\ last.op = "remove_lockfiles"
    /\ last.module = "build"
    /\ "some-image/conda-notebook-lock.yml" \in DOMAIN last.before
    /\ "some-image/conda-notebook-lock.yml" \notin DOMAIN fs
    /\ "some-image/conda-a.yml" \in DOMAIN fs

\* C8 as stated: when update_lockfiles has run its commands and returned,
\* every conda-<name>.yml of the image directory that is not a lock file has
\* a conda-<name>-lock.yml holding the lines of that environment's export
\* from the first line with 'name:' onward.
C8_EveryEnvFileLocked ==
    (last # Idle /\ last.op = "update_lockfiles" /\ last.raised = ""
        /\ (last.module = "build" => ~dryrun))
    => \A p \in DOMAIN last.before :
          (IsEnvDefinition(last.args.image, p) /\ ~IsLockName(last.args.image, p))
          => \E k \in 1..Len(last.env.envs) :
                /\ last.env.envs[k] = p
                /\ LockOf(p) \in DOMAIN fs
                /\ fs[LockOf(p)] = FromFirstName(last.env.outs[k].stdout)

(***************************************************************************)
(* src/src/buildimages.py: main.  One run of main per behaviour: MainCheck *)
(* is lines 239-260, and every pass of the loop of lines 262-272 makes     *)
(* the Builder calls its flags select, one after the other.                *)
(***************************************************************************)
\* the directory main is started in, and the root of the checkout
StartDir == "/work"
RootDir == "/repo"

MainInitialFiles ==
    { Files({"base_image/Dockerfile", "base_image/conda-base.yml",
             "base_image/conda-base-lock.yml", "tractor/Dockerfile",
             "tractor/conda-tractor.yml"}),
      Files({"base_image/Dockerfile", "tractor/Dockerfile", "tractor/conda-tractor.yml",
             "tractor/conda-tractor-lock.yml"}) }

MainParams ==
    [repository : {"some-repo"},
     tag : {"some-tag"},
     do_push : BOOLEAN,
     update_lock : BOOLEAN,
     no_build : BOOLEAN,
     build_args : {PyNone, PyList(<<"ENV=val">>), PyList(<<"badarg">>)},
     images : SeqsUpTo(ImageNames, MaxImages),
     build_pars : {PyNone, PyStr("--no-cache"), PyStr("--tag x"), PyStr("--build-arg A=b")},
     files : MainInitialFiles]

InitMain ==
    /\ dryrun = FALSE
    /\ params \in MainParams
    /\ fs = params.files
    /\ issued = <<>>
    /\ executed = <<>>
    /\ last = Idle
    /\ pc = "start"
    /\ tobuild = <<>>
    /\ idx = 0
    /\ cwd = StartDir
    /\ steps = <<>>

\* the Builder calls of one pass of the loop, lines 263-272
StepsOfPass(p) ==
    (IF ~p.no_build /\ p.update_lock THEN <<"remove">> ELSE <<>>)
        \o (IF ~p.no_build THEN <<"build">> ELSE <<>>)
        \o (IF p.update_lock THEN <<"update">> ELSE <<>>)
        \o (IF p.do_push THEN <<"push">> ELSE <<>>)

\* a mutant of Following: the loop runs step by step over all images
FollowingByStep(p, builds, i, step) ==
    LET pass == StepsOfPass(p)
        k == CHOOSE j \in 1..Len(pass) : pass[j] = step
    IN  IF i < Len(builds) THEN [pc |-> step, idx |-> i + 1]
        ELSE IF k < Len(pass) THEN [pc |-> pass[k + 1], idx |-> 1]
        ELSE [pc |-> "done", idx |-> i]

\* where main stands after the call step of pass i has returned
Following(p, builds, i, step) ==
    LET pass == StepsOfPass(p)
        k == CHOOSE j \in 1..Len(pass) : pass[j] = step
    IN  IF k < Len(pass) THEN [pc |-> pass[k + 1], idx |-> i]
        ELSE IF i < Len(builds) THEN [pc |-> pass[1], idx |-> i + 1]
        ELSE [pc |-> "done", idx |-> i]

\* a mutant of MainRejects: the checks of lines 239-249 are left out
MainRejectsNothing(p) == FALSE

\* lines 239-249: the arguments main refuses
MainRejects(p) ==
    \/ p.no_build /\ p.do_push
    \/ /\ p.build_pars.type # "NoneType"
       /\ (Contains(p.build_pars.val, "--tag") \/ Contains(p.build_pars.val, "--build-arg"))

\* lines 239-260
MainCheck ==
    /\ pc = "start"
    /\ LET b == BuildsNecessary(params.repository, params.tag, params.images)
       IN  IF MainRejects(params) \/ b.exit = 2
           THEN /\ pc' = "exit2"
                /\ UNCHANGED <<tobuild, idx, cwd>>
           ELSE /\ tobuild' = b.tobuild
                /\ cwd' = RootDir
                /\ IF Len(b.tobuild) = 0 \/ Len(StepsOfPass(params)) = 0
                   THEN pc' = "done" /\ idx' = 0
                   ELSE pc' = StepsOfPass(params)[1] /\ idx' = 1
    /\ UNCHANGED <<dryrun, fs, issued, executed, last, params, steps>>

\* what every call of the loop does to main's own state; outs are the
\* outcomes the environment holds ready for the commands of the call, of
\* which those of the commands that were executed are kept in last.kinds
MainStep(step, r, outs) ==
    /\ steps' = Append(steps, [image |-> tobuild[idx][1], step |-> step])
    /\ last' = [op |-> step, module |-> "main", image |-> tobuild[idx][1],
                raised |-> r.raised,
                kinds |-> [k \in 1..Len(r.executed) |-> outs[k].kind]]
    /\ issued' = issued \o r.issued
    /\ executed' = executed \o r.executed
    /\ IF r.raised # ""
       THEN pc' = "error" /\ idx' = idx
       ELSE /\ pc' = Following(params, tobuild, idx, step).pc
            /\ idx' = Following(params, tobuild, idx, step).idx
    /\ UNCHANGED <<dryrun, params, tobuild, cwd>>

\* line 265: builder.remove_lockfiles(dockerdir)
MainRemove ==
    /\ pc = "remove"
    /\ fs' = RemoveLockfiles(fs, tobuild[idx][1])
    /\ MainStep("remove", Effect("", fs, <<>>, <<>>), <<>>)

\* lines 266-268: builder.build(repository, dockerdir, tag, build_args, build_pars)
MainBuild ==
    /\ pc = "build"
    /\ \E env \in {o \in MainOutcomes : o.stdout = ""} :
         MainStep("build", ImagesBuild(params.repository, tobuild[idx][1], tobuild[idx][2],
                                       params.build_args, params.build_pars, env),
                  <<env>>)
    /\ UNCHANGED fs

\* line 270: builder.update_lockfiles(dockerdir, repository, tag)
MainUpdate ==
    /\ pc = "update"
    /\ \E envs \in Orders(EnvFiles(fs, tobuild[idx][1])) :
         \E outs \in [1..Len(envs) -> MainOutcomes] :
           LET r == ImagesUpdateLockfiles(fs, tobuild[idx][1], params.repository,
                                          tobuild[idx][2], envs, outs)
           IN  fs' = r.fs /\ MainStep("update", r, outs)

\* line 272: builder.push(tag)
MainPush ==
    /\ pc = "push"
    /\ \E env \in {o \in MainOutcomes : o.stdout = ""} :
         MainStep("push", ImagesPush(PyStr(tobuild[idx][2]), env), <<env>>)
    /\ UNCHANGED fs

NextMain ==
    \/ MainCheck
    \/ MainRemove
    \/ MainBuild
    \/ MainUpdate
    \/ MainPush

SpecMain == InitMain /\ [][NextMain]_vars

(***************************************************************************)
(* Claims about main.                                                      *)
(***************************************************************************)
\* C7: when no_build and do_push are both set, or build_pars holds --tag or
\* --build-arg, main ends with exit code 2 and until then no command was
\* passed to run() or executed, no file was removed or written, the working
\* directory was not changed and no Builder step was made.
C7_RejectedBeforeAnything ==
    (/\ pc # "start"
     /\ \/ params.no_build /\ params.do_push
        \/ /\ IsStr(params.build_pars)
           /\ \E w \in {"--tag", "--build-arg"} : Contains(params.build_pars.val, w))
    => /\ pc = "exit2"
       /\ issued = <<>>
       /\ executed = <<>>
       /\ steps = <<>>
       /\ fs = params.files
       /\ cwd = StartDir

\* main has refused a --tag in build_pars although lock files were to be updated
C7_Witness ==
    /\ pc = "exit2"
    /\ params.build_pars = PyStr("--tag x")
    /\ params.update_lock
    /\ ~params.no_build
    /\ params.images = <<"base_image", "tractor">>

\* the place of a step in one pass of main's loop
StepRank(step) ==
    CASE step = "remove" -> 1
      [] step = "build" -> 2
      [] step = "update" -> 3
      [] step = "push" -> 4

\* C10: the steps main makes come one after the other in build order: of
\* any two steps the earlier one is a step of an image earlier in BuildOrder,
\* or a step of the same image that stands earlier in the order remove lock
\* files, build, update lock files, push.
C10_StepsInBuildOrder ==
    \A i, j \in 1..Len(steps) :
        i < j =>
            \/ OrderIndex(steps[i].image) < OrderIndex(steps[j].image)
            \/ /\ steps[i].image = steps[j].image
               /\ StepRank(steps[i].step) < StepRank(steps[j].step)

\* main has finished all four steps of both images, requested dependent first
C10_Witness ==
    /\ pc = "done"
    /\ params.images = <<"tractor", "base_image">>
    /\ Len(steps) = 8
    /\ steps[4] = [image |-> "base_image", step |-> "push"]
    /\ steps[5] = [image |-> "tractor", step |-> "remove"]

\* C11 as stated: whenever update_lock is requested, a step that builds an
\* image or regenerates its lock files comes after the step that removed that
\* image's lock files, whatever the other flags are (no_build included).
C11_RemoveBeforeUpdate ==
    \A j \in 1..Len(steps) :
        (params.update_lock /\ steps[j].step \in {"build", "update"})
        => \E i \in 1..(j - 1) :
              steps[i] = [image |-> steps[j].image, step |-> "remove"]

\* an outcome of a command that is a failure: a non-zero exit status or a
\* timeout
Failed(kind) == kind \in {"nonzero", "timeout"}

\* the call main made last has executed a command that failed
CommandFailed ==
    /\ last # Idle
    /\ last.module = "main"
    /\ \E k \in 1..Len(last.kinds) : Failed(last.kinds[k])

\* C12: when a command main has executed (a build, a lock-file export or a
\* push, of any image) ends with a non-zero exit status or exceeds its
\* timeout, it is the last command main executes: the call raises
\* CalledProcessError or TimeoutExpired, main stands at the error and never
\* at its normal end, and from there no step is made (no further command for
\* this image or a later one, no retry).
C12_FailureAbortsRun ==
    /\ [](CommandFailed
            => /\ pc = "error"
               /\ last.raised \in {"CalledProcessError", "TimeoutExpired"}
               /\ \A k \in 1..(Len(last.kinds) - 1) : ~Failed(last.kinds[k])
               /\ Len(executed) = Len(issued))
    /\ [][pc = "error" => (pc' = "error" /\ executed' = executed /\ issued' = issued)]_vars

\* the build of base_image has exceeded its timeout while tractor, and the
\* update and push of base_image, were still to come
C12_Witness ==
    /\ pc = "error"
    /\ last.op = "build"
    /\ last.image = "base_image"
    /\ last.kinds = <<"timeout">>
    /\ Len(tobuild) = 2
    /\ params.update_lock
    /\ params.do_push
    /\ Len(executed) = 1

\* the lock files of the images: the paths that remove_lockfiles' pattern
\* conda-*lock.yml matches in one of the image directories
LockFileSet(files) ==
    {p \in DOMAIN files : \E image \in Range(BuildOrder) : IsLockName(image, p)}

\* C13 as stated: when main is given a build_args list with an entry that
\* has not exactly one '=', then whatever the other flags are (update_lock
\* in particular) no command is executed during the run and the lock files
\* on disk stay the ones main started with.
C13_MalformedArgChangesNothing ==
    (HasMalformed(params.build_args) /\ pc # "start")
    => /\ executed = <<>>
       /\ LockFileSet(fs) = LockFileSet(params.files)

(***************************************************************************)
(* Claims about the export command of update_lockfiles.                    *)
(***************************************************************************)
\* the words the shell makes of a command line: blanks separate, none is empty
ShellWords(cmd) == SelectSeq(Words(cmd), LAMBDA w : w # "")

\* the image reference build passes to --tag when it is given the tag that
\* update_lockfiles was given: build.py cuts it after the last colon,
\* buildimages.py passes it whole
BuiltReference(module, tag) ==
    IF module = "build" THEN SuffixAfterLastColon(tag) ELSE tag

\* update_lockfiles was called for the image its tag names (buildimages.py
\* composes the reference from repository, image_path and tag)
TagNamesImage ==
    \/ last.module = "build"
    \/ last.args.tag.val = "ghcr.io/some-repo/" \o last.args.image \o ":"
                               \o SuffixAfterLastColon(last.args.tag.val)

\* C14 as stated: every command update_lockfiles passes to run() is, word by
\* word, docker run --entrypoint="" --rm [extraFlags] <tag> mamba env export
\* -n <env>, where <tag> is a word of its own and is the reference build
\* passes to --tag for that image, and <env> the environment of the file.
C14_ExportCommandForm ==
    (last # Idle /\ last.op = "update_lockfiles" /\ TagNamesImage)
    => \A k \in 1..Len(issued) :
          ShellWords(issued[k].command)
            = <<"docker", "run", "--entrypoint=\"\"", "--rm">>
                \o (IF Truthy(last.args.extra_args)
                    THEN ShellWords(last.args.extra_args.val) ELSE <<>>)
                \o <<BuiltReference(last.module, last.args.tag.val),
                     "mamba", "env", "export", "-n",
                     EnvName(last.args.image, last.env.envs[k])>>

\* C15 as stated: in dry mode, update_lockfiles of build.py, given a tag
\* repo:tag and an image directory that holds an environment file which is
\* no lock file, returns without raising, executes no command and writes no
\* file.
C15_DryUpdateNeverThrows ==
    (/\ last # Idle
     /\ last.op = "update_lockfiles"
     /\ last.module = "build"
     /\ dryrun
     /\ IsStr(last.args.tag)
     /\ Contains(last.args.tag.val, ":")
     /\ \E p \in DOMAIN last.before :
           IsEnvDefinition(last.args.image, p) /\ ~IsLockName(last.args.image, p))
    => /\ last.raised = ""
       /\ executed = <<>>
       /\ fs = last.before

(***************************************************************************)
(* Claims about build_images of src/build.py.                              *)
(***************************************************************************)
\* build_images was called last, for an image folder that has a Dockerfile,
\* with a list of at least one build argument
BuildImagesWithArgs ==
    /\ last # Idle
    /\ last.op = "build_images"
    /\ (last.args.image \o "/Dockerfile") \in DOMAIN last.before
    /\ last.args.build_args.type = "list"
    /\ Len(last.args.build_args.items) > 0

\* K=v for the entry k=v
UpperKeyed(arg) == Upper(Split1(arg, "=")[1]) \o "=" \o Split1(arg, "=")[2]

\* C16 as stated: for a non-empty build_args list of well-formed entries the
\* 'docker build' command of build_images holds exactly one --build-arg per
\* entry, in the order given, the i-th with the i-th key in upper case and
\* the i-th value; a list with an entry that lacks '=' is refused with
\* ValueError before any command is made or run.
C16_EveryBuildArgUpperCased ==
    BuildImagesWithArgs
    => LET items == last.args.build_args.items
       IN  IF \E i \in 1..Len(items) : ~Contains(items[i], "=")
           THEN last.raised = "ValueError" /\ issued = <<>> /\ executed = <<>>
           ELSE WellFormed(last.args.build_args)
                => /\ Len(issued) >= 1
                   /\ FlagValues(Words(issued[1].command), "--build-arg")
                        = [i \in 1..Len(items) |-> UpperKeyed(items[i])]

=============================================================================
